---------------------------- MODULE Spec2Model ----------------------------
(***************************************************************************)
(* hast-util-from-html: the parse-error reporting of lib/index.js.         *)
(*                                                                         *)
(* fromHtml(value, options) hands the document to parse5 and registers     *)
(* the closure onerror as parse5's onParseError.  For every raw parse      *)
(* error onerror resolves a severity from options, renders the rule's      *)
(* templates with format, builds a VFileMessage and calls options.onerror. *)
(*                                                                         *)
(* A JavaScript string is modelled as what it is, a sequence of UTF-16     *)
(* code units (naturals below 65536).  Str turns a literal into one.       *)
(***************************************************************************)
EXTENDS Integers, Sequences, FiniteSets, TLC

-----------------------------------------------------------------------------
(* Strings                                                                 *)

\* The printable ASCII characters in code-unit order: U+0020 to U+005F, and
\* U+0061 to U+007E.  The grave accent U+0060 between them is written
\* Backtick wherever it is meant.
AsciiLow ==
  " !\"#$%&'()*+,-./0123456789:;<=>?@ABCDEFGHIJKLMNOPQRSTUVWXYZ[\\]^_"
AsciiHigh == "abcdefghijklmnopqrstuvwxyz{|}~"

\* The code unit of a one-character literal.
CodeUnit ==
  [c \in {SubSeq(AsciiLow, i, i) : i \in 1..Len(AsciiLow)}
          \cup {SubSeq(AsciiHigh, i, i) : i \in 1..Len(AsciiHigh)} |->
     IF \E i \in 1..Len(AsciiLow) : SubSeq(AsciiLow, i, i) = c
     THEN 31 + (CHOOSE i \in 1..Len(AsciiLow) : SubSeq(AsciiLow, i, i) = c)
     ELSE 96 + (CHOOSE i \in 1..Len(AsciiHigh) : SubSeq(AsciiHigh, i, i) = c)]

Ch(c) == CodeUnit[c]

\* A string literal as a sequence of code units.
Str(s) == [i \in 1..Len(s) |-> Ch(SubSeq(s, i, i))]

Percent  == Ch("%")
LowerC   == Ch("c")
LowerX   == Ch("x")
Minus    == Ch("-")
Plus     == Ch("+")
Colon    == Ch(":")
Digit0   == Ch("0")
Digit9   == Ch("9")
LowerA   == Ch("a")
LowerZ   == Ch("z")
UpperA   == Ch("A")
UpperZ   == Ch("Z")

\* U+0000 and the lone surrogate U+D800 have no literal; they are code units.
NUL       == 0
Surrogate == 55296

\* The grave accent, U+0060.
Backtick == 96

\* Literals of lib/index.js.
Space          == Ch(" ")
HexPrefix      == Str("0x")
NaNText        == Str("NaN")
ParseErrorTag  == Str("parse-error")
OnerrorKey     == Str("onerror")

\* A text between two grave accents, as the catalog quotes code.
Q(s) == <<Backtick>> \o s \o <<Backtick>>

\* JavaScript values of mixed type are tagged.
Undefined == [t |-> "undefined"]
Null      == [t |-> "null"]
Bool(b)   == [t |-> "boolean", v |-> b]
Num(n)    == [t |-> "number", nan |-> FALSE, v |-> n]
NaN       == [t |-> "number", nan |-> TRUE, v |-> 0]
JsStr(s)  == [t |-> "string", v |-> s]

\* String.prototype.charAt: the one-unit string at a 0-based index, or "".
charAt(str, pos) ==
  IF pos >= 0 /\ pos < Len(str) THEN <<str[pos + 1]>> ELSE <<>>

\* String.prototype.charCodeAt: the code unit at a 0-based index, or NaN.
charCodeAt(str, pos) ==
  IF pos >= 0 /\ pos < Len(str) THEN Num(str[pos + 1]) ELSE NaN

\* String.prototype.toUpperCase, on the ASCII range the code applies it to.
toUpperCase(str) ==
  [i \in 1..Len(str) |->
     IF str[i] >= LowerA /\ str[i] <= LowerZ THEN str[i] - 32 ELSE str[i]]

\* The digits of a non-negative integer in a radix, lower-case.
RECURSIVE digitsOf(_, _)
digitsOf(n, radix) ==
  LET d == n % radix
      c == IF d < 10 THEN Digit0 + d ELSE LowerA + (d - 10)
  IN  IF n < radix THEN <<c>> ELSE Append(digitsOf(n \div radix, radix), c)

\* Number.prototype.toString(radix) of a code unit or NaN.
toString(num, radix) ==
  IF num.nan THEN NaNText ELSE digitsOf(num.v, radix)

\* Number.parseInt(str, 10) of a run of decimal digits.
RECURSIVE parseInt(_)
parseInt(digits) ==
  IF digits = <<>> THEN 0
  ELSE 10 * parseInt(SubSeq(digits, 1, Len(digits) - 1))
         + (digits[Len(digits)] - Digit0)

isDigit(c) == c >= Digit0 /\ c <= Digit9

-----------------------------------------------------------------------------
(* camelcase (lib/index.js)                                                *)

\* value.replace(/-[a-z]/g, ($0) => $0.charAt(1).toUpperCase()), scanning
\* from 1-based index i.
RECURSIVE camelcaseFrom(_, _)
camelcaseFrom(value, i) ==
  IF i > Len(value) THEN <<>>
  ELSE IF /\ value[i] = Minus
          /\ i + 1 <= Len(value)
          /\ value[i + 1] >= LowerA
          /\ value[i + 1] <= LowerZ
       THEN toUpperCase(charAt(SubSeq(value, i, i + 1), 1))
              \o camelcaseFrom(value, i + 2)
       ELSE <<value[i]>> \o camelcaseFrom(value, i + 1)

\* camelcase without the g flag: only the first match is replaced.
RECURSIVE camelcaseFirstFrom(_, _)
camelcaseFirstFrom(value, i) ==
  IF i > Len(value) THEN <<>>
  ELSE IF /\ value[i] = Minus
          /\ i + 1 <= Len(value)
          /\ value[i + 1] >= LowerA
          /\ value[i + 1] <= LowerZ
       THEN toUpperCase(charAt(SubSeq(value, i, i + 1), 1))
              \o SubSeq(value, i + 2, Len(value))
       ELSE <<value[i]>> \o camelcaseFirstFrom(value, i + 1)

camelcaseFirstOnly(value) == camelcaseFirstFrom(value, 1)

\* camelcase without toUpperCase: the hyphen goes and the letter stays as it is.
RECURSIVE camelcaseLowerFrom(_, _)
camelcaseLowerFrom(value, i) ==
  IF i > Len(value) THEN <<>>
  ELSE IF /\ value[i] = Minus
          /\ i + 1 <= Len(value)
          /\ value[i + 1] >= LowerA
          /\ value[i + 1] <= LowerZ
       THEN charAt(SubSeq(value, i, i + 1), 1)
              \o camelcaseLowerFrom(value, i + 2)
       ELSE <<value[i]>> \o camelcaseLowerFrom(value, i + 1)

camelcaseLower(value) == camelcaseLowerFrom(value, 1)

\* camelcase(value)
camelcase(value) == camelcaseFrom(value, 1)

-----------------------------------------------------------------------------
(* kebab (script/parse-error.js): the hyphen-case form of a catalog key     *)

\* String.prototype.toLowerCase, on the ASCII range the code applies it to.
toLowerCase(str) ==
  [i \in 1..Len(str) |->
     IF str[i] >= UpperA /\ str[i] <= UpperZ THEN str[i] + 32 ELSE str[i]]

\* kebab with the letter left in upper case.
RECURSIVE kebabUpperFrom(_, _)
kebabUpperFrom(key, i) ==
  IF i > Len(key) THEN <<>>
  ELSE IF key[i] >= UpperA /\ key[i] <= UpperZ
       THEN <<Minus>> \o <<key[i]>> \o kebabUpperFrom(key, i + 1)
       ELSE <<key[i]>> \o kebabUpperFrom(key, i + 1)

kebabUpper(key) == kebabUpperFrom(key, 1)

\* key.replace(/[A-Z]/g, function ($0) { return '-' + $0.toLowerCase() }),
\* scanning from index i.
RECURSIVE kebabFrom(_, _)
kebabFrom(key, i) ==
  IF i > Len(key) THEN <<>>
  ELSE IF key[i] >= UpperA /\ key[i] <= UpperZ
       THEN <<Minus>> \o toLowerCase(<<key[i]>>) \o kebabFrom(key, i + 1)
       ELSE <<key[i]>> \o kebabFrom(key, i + 1)

\* const kebab = key.replace(...)
kebab(key) == kebabFrom(key, 1)

-----------------------------------------------------------------------------
(* format (lib/index.js, closure of onerror over doc and error)            *)

\* The number of decimal digits of value starting at 1-based index i.
RECURSIVE digitRun(_, _)
digitRun(value, i) ==
  IF i <= Len(value) /\ isDigit(value[i]) THEN 1 + digitRun(value, i + 1) ELSE 0

\* replacerC with the sign of the offset dropped.
replacerCUnsigned(g1, g2, doc, error) ==
  LET offset == IF g2 # <<>> THEN parseInt(g2) ELSE 0
      char   == charAt(doc, error.startOffset + offset)
  IN  IF char = <<Backtick>>
      THEN <<Backtick, Space, Backtick, Space, Backtick>>
      ELSE char

\* The replacer of /%c(?:([-+])(\d+))?/g: g1 and g2 are the groups' texts,
\* <<>> for a group that did not take part.
replacerC(g1, g2, doc, error) ==
  LET offset == (IF g2 # <<>> THEN parseInt(g2) ELSE 0)
                  * (IF g1 = <<Minus>> THEN -1 ELSE 1)
      char   == charAt(doc, error.startOffset + offset)
  IN  IF char = <<Backtick>> THEN <<Backtick, Space, Backtick, Space, Backtick>> ELSE char

\* value.replace(/%c(?:([-+])(\d+))?/g, replacer), scanning from index i.
RECURSIVE replaceC(_, _, _, _)
replaceC(value, i, doc, error) ==
  IF i > Len(value) THEN <<>>
  ELSE IF value[i] = Percent /\ i + 1 <= Len(value) /\ value[i + 1] = LowerC
       THEN LET signed == /\ i + 2 <= Len(value)
                          /\ value[i + 2] \in {Minus, Plus}
                          /\ digitRun(value, i + 3) > 0
                n      == IF signed THEN digitRun(value, i + 3) ELSE 0
                g1     == IF signed THEN <<value[i + 2]>> ELSE <<>>
                g2     == IF signed THEN SubSeq(value, i + 3, i + 2 + n) ELSE <<>>
                next   == IF signed THEN i + 3 + n ELSE i + 2
            IN  replacerC(g1, g2, doc, error) \o replaceC(value, next, doc, error)
       ELSE <<value[i]>> \o replaceC(value, i + 1, doc, error)

\* replacerX without toUpperCase.
replacerXLowerCase(doc, error) ==
  HexPrefix \o toString(charCodeAt(doc, error.startOffset), 16)

\* The replacer of /%x/g.
replacerX(doc, error) ==
  HexPrefix \o toUpperCase(toString(charCodeAt(doc, error.startOffset), 16))

\* value.replace(/%x/g, replacer), scanning from index i.
RECURSIVE replaceX(_, _, _, _)
replaceX(value, i, doc, error) ==
  IF i > Len(value) THEN <<>>
  ELSE IF value[i] = Percent /\ i + 1 <= Len(value) /\ value[i + 1] = LowerX
       THEN replacerX(doc, error) \o replaceX(value, i + 2, doc, error)
       ELSE <<value[i]>> \o replaceX(value, i + 1, doc, error)

\* format(value): the %c pass, then the %x pass over its result.
format(value, doc, error) ==
  replaceX(replaceC(value, 1, doc, error), 1, doc, error)

-----------------------------------------------------------------------------
(* The rule catalog (lib/errors.js): normalized identifier -> templates.   *)
(* An entry has a url field only when it suppresses its URL.               *)

Catalog ==
  (Str("missingDoctype") :>
     [reason      |-> Str("Missing doctype before other content"),
      description |-> Str("Expected a ") \o Q(Str("<!doctype html>"))
                        \o Str(" before anything else"),
      url         |-> Bool(FALSE)])
  @@
  (Str("endTagWithTrailingSolidus") :>
     [reason      |-> Str("Unexpected slash at end of closing tag"),
      description |-> Str("Unexpected ") \o Q(Str("%c")) \o Str(". Expected ")
                        \o Q(Str(">")) \o Str(" instead")])
  @@
  (Str("unexpectedNullCharacter") :>
     [reason      |-> Str("Unexpected NULL character"),
      description |-> Str("Unexpected code point ") \o Q(Str("%x"))
                        \o Str(". Do not use NULL characters in HTML")])

\* import {errors} from './errors.js': the object the name stands for.
VARIABLE errors

-----------------------------------------------------------------------------
(* vfile-message and unist-util-stringify-position, as onerror uses them   *)

\* String(n) of a non-negative integer.
decimal(n) == digitsOf(n, 10)

\* index(value): the number, or 1 when it is 0 or no number.
index(value) == IF value # 0 THEN value ELSE 1

\* point(p): line:column.
point(p) == decimal(index(p.line)) \o <<Colon>> \o decimal(index(p.column))

\* stringifyPosition of a position with start and end.
stringifyPosition(place) == point(place.start) \o <<Minus>> \o point(place.end)

\* new VFileMessage(reason, {start, end}): the fields the constructor sets.
VFileMessage(reason, place) ==
  [name     |-> stringifyPosition(place),
   message  |-> reason,
   reason   |-> reason,
   line     |-> place.start.line,
   column   |-> place.start.column,
   position |-> place]

-----------------------------------------------------------------------------
(* fromHtml and onerror (lib/index.js)                                     *)

base == Str("https://html.spec.whatwg.org/multipage/parsing.html#parse-error-")

\* ToBoolean of a tagged value.
truthy(v) ==
  CASE v.t = "undefined" -> FALSE
    [] v.t = "null"      -> FALSE
    [] v.t = "boolean"   -> v.v
    [] v.t = "number"    -> ~v.nan /\ v.v # 0
    [] v.t = "string"    -> v.v # <<>>
    [] OTHER             -> TRUE

\* obj[key] of a plain object: the own property, or undefined.
get(obj, key) == IF key \in DOMAIN obj THEN obj[key] ELSE Undefined

\* fatalities with the values of 1 and 0 exchanged.
fatalitiesShifted(level) ==
  IF level.nan THEN Undefined
  ELSE CASE level.v = 2 -> Bool(TRUE)
         [] level.v = 1 -> Null
         [] level.v = 0 -> Bool(FALSE)
         [] OTHER       -> Undefined

\* const fatalities = {2: true, 1: false, 0: null}, read as fatalities[level].
fatalities(level) ==
  IF level.nan THEN Undefined
  ELSE CASE level.v = 2 -> Bool(TRUE)
         [] level.v = 1 -> Bool(FALSE)
         [] level.v = 0 -> Null
         [] OTHER       -> Undefined

\* const config = setting === undefined || setting === null ? true : setting
configOf(setting) ==
  IF setting = Undefined \/ setting = Null THEN Bool(TRUE) ELSE setting

\* levelOf with every value that is no number taken as 1.
levelOfNoBooleanOff(config) ==
  IF config.t = "number" THEN config ELSE Num(1)

\* const level = typeof config === 'number' ? config : config ? 1 : 0
levelOf(config) ==
  IF config.t = "number" THEN config
  ELSE IF truthy(config) THEN Num(1) ELSE Num(0)

\* infoOf with the name of the rule as the reason of a rule without entry.
infoOfNamed(name) ==
  IF name \in DOMAIN errors THEN errors[name]
  ELSE [reason |-> name, description |-> <<>>, url |-> JsStr(<<>>)]

\* severity with every rule off as soon as one property of the options is
\* false.
severityOneSwitch(name, opts) ==
  IF \E k \in DOMAIN opts : opts[k] = Bool(FALSE) THEN Num(0)
  ELSE levelOf(configOf(get(opts, name)))

\* const setting = options[name], config and level: the severity of a rule.
severity(name, opts) == levelOf(configOf(get(opts, name)))

\* errors[name] || {reason: '', description: '', url: ''}
infoOf(name) ==
  IF name \in DOMAIN errors THEN errors[name]
  ELSE [reason |-> <<>>, description |-> <<>>, url |-> JsStr(<<>>)]

\* urlOf with the normalized identifier in place of the code.
urlOfNormalized(info, code) ==
  IF "url" \in DOMAIN info /\ info.url = Bool(FALSE) THEN Null
  ELSE JsStr(base \o camelcase(code))

\* 'url' in info && info.url === false ? null : base + code
urlOf(info, code) ==
  IF "url" \in DOMAIN info /\ info.url = Bool(FALSE) THEN Null
  ELSE JsStr(base \o code)

\* withFile that sets name and leaves file unset.
withFileNameOnly(message, file) ==
  IF truthy(file.path)
  THEN [message EXCEPT !.name = file.path.v \o <<Colon>> \o @]
  ELSE message

\* if (file.path) { message.name = file.path + ':' + message.name;
\*                  message.file = file.path }
withFile(message, file) ==
  IF truthy(file.path)
  THEN [message EXCEPT !.name = file.path.v \o <<Colon>> \o @]
         @@ [file |-> file.path.v]
  ELSE message

\* const start = {line: error.startLine, column: error.startCol,
\*                offset: error.startOffset}
startOf(error) ==
  [line   |-> error.startLine,
   column |-> error.startCol,
   offset |-> error.startOffset]

\* endOf with the start column in place of the end column.
endOfStartCol(error) ==
  [line   |-> error.endLine,
   column |-> error.startCol,
   offset |-> error.endOffset]

\* const end = {line: error.endLine, column: error.endCol,
\*              offset: error.endOffset}
endOf(error) ==
  [line   |-> error.endLine,
   column |-> error.endCol,
   offset |-> error.endOffset]

\* call with the newest call put first.
callPrepended(log, fn, arguments) ==
  <<[fn |-> fn, args |-> arguments]>> \o log

\* warn(message): one call of fn with the arguments given, after the calls
\* made before it.
call(log, fn, arguments) == Append(log, [fn |-> fn, args |-> arguments])

\* messageOf with the note rendered from the reason template.
messageOfNoteFromReason(error, name, level, file, doc) ==
  LET start == startOf(error)
      end   == endOf(error)
      info  == infoOf(name)
      message == VFileMessage(format(info.reason, doc, error),
                              [start |-> start, end |-> end])
  IN  withFile(message, file)
        @@ [source |-> ParseErrorTag,
            ruleId |-> error.code,
            fatal  |-> fatalities(level),
            note   |-> format(info.reason, doc, error),
            url    |-> urlOf(info, error.code)]

\* The body of if (level): the message handed to warn.
messageOf(error, name, level, file, doc) ==
  LET start == startOf(error)
      end   == endOf(error)
      info  == infoOf(name)
      message == VFileMessage(format(info.reason, doc, error),
                              [start |-> start, end |-> end])
  IN  withFile(message, file)
        @@ [source |-> ParseErrorTag,
            ruleId |-> error.code,
            fatal  |-> fatalities(level),
            note   |-> format(info.description, doc, error),
            url    |-> urlOf(info, error.code)]

-----------------------------------------------------------------------------
(* State                                                                   *)

VARIABLES
  pc,            \* "idle", "parsing" (inside parse5), "sink" (inside the
                 \* caller's sink), "done" (fromHtml returned), "threw"
  file,          \* const file: the VFile of the call
  doc,           \* const doc = String(file)
  options,       \* the caller's options object: property name -> value
  warn,          \* const warn = options.onerror || null
  onParseError,  \* the handler given to parse5: Onerror or Null
  raised,        \* the raw parse errors parse5 has detected, in order
  constructed,   \* how many VFileMessages have been built so far
  calls,         \* the calls made to warn so far: [fn, args]
  thrown,        \* the exception that ended fromHtml, Undefined when none
  stack,         \* the calls of fromHtml suspended inside their sink
  previous,      \* the parses the caller has finished: what it gave and got
  args,          \* the arguments of a function applied on its own
  ret            \* its result, Undefined before the application

vars == <<pc, file, doc, options, warn, onParseError, raised, constructed,
          calls, errors, thrown, stack, previous, args, ret>>

\* The state of the calls of fromHtml.
parse == <<pc, file, doc, options, warn, onParseError, raised, constructed,
           calls, errors, thrown, stack, previous>>

-----------------------------------------------------------------------------
(* Inputs                                                                  *)

\* The most parse errors parse5 raises in one parse of the model, the most
\* calls of fromHtml suspended inside a sink, and the number of messages
\* built after which a sink starts no further parse.
MaxEvents   == 2
MaxDepth    == 1
MaxMessages == 3

\* The closure onerror of one call of fromHtml, as a value.
Onerror == [t |-> "function", name |-> "onerror"]

\* The caller's sinks: one that records the message and returns, one that
\* throws, one that parses another document before it returns, and one that
\* writes to the options object it was registered with.
Sink         == [t |-> "function", name |-> "sink"]
ThrowingSink == [t |-> "function", name |-> "throwing sink"]
NestingSink  == [t |-> "function", name |-> "nesting sink"]
MeddlingSink == [t |-> "function", name |-> "meddling sink"]

\* What ThrowingSink throws.
SinkError == [t |-> "error", name |-> "thrown by the sink"]

\* The values of a rule's option the documentation names; a property that
\* is not set reads as undefined.
Settings ==
  {Undefined, Null, Bool(FALSE), Bool(TRUE), Num(0), Num(1), Num(2)}

RuleCodes ==
  {Str("missing-doctype"),
   Str("end-tag-with-trailing-solidus"),
   Str("unexpected-null-character")}

\* A code parse5 may raise that errors has no entry for.
MissingCodes == {Str("no-such-rule")}

RuleNames == DOMAIN Catalog

\* The option names of the missing codes.
MissingNames == {Str("noSuchRule")}

NoProperties == [k \in {} |-> Undefined]

\* Rule options: none, one rule set to any value, a missing code turned off
\* or made fatal, or one rule set to 0 or 1 and a second rule turned off or
\* made fatal.
RuleOptions ==
  {NoProperties}
    \cup {k :> s : k \in RuleNames, s \in Settings}
    \cup {k :> s : k \in MissingNames, s \in {Bool(FALSE), Num(2)}}
    \cup {(k :> s) @@ (k2 :> s2) :
            k \in RuleNames, s \in {Num(0), Num(1)},
            k2 \in RuleNames, s2 \in {Bool(FALSE), Num(2)}}

\* The options objects: with a sink and any of the rule options, without a
\* sink and with at most one rule set, or with a sink that throws and with at
\* most one rule turned off or made fatal.
OptionsObjects ==
  {(OnerrorKey :> Sink) @@ r : r \in RuleOptions}
    \cup {r \in RuleOptions : Cardinality(DOMAIN r) <= 1}
    \cup {(OnerrorKey :> ThrowingSink) @@ r :
            r \in {NoProperties}
                    \cup {k :> s : k \in RuleNames, s \in {Bool(FALSE), Num(2)}}}

VFile(value, path) == [t |-> "vfile", value |-> value, path |-> path]

\* The documents parsed: a string, and a VFile with a path.
Values ==
  {JsStr(Str("</x/>")),
   VFile(<<NUL, Backtick>> \o Str(">"), JsStr(Str("example.html")))}

Point(line, column, offset) ==
  [line |-> line, column |-> column, offset |-> offset]

\* Where parse5 may locate an error in a document: over its second
\* character, and at its end.
Inside   == <<Point(1, 2, 1), Point(1, 3, 2)>>
AtEnd(d) == <<Point(2, 1, Len(d)), Point(2, 1, Len(d))>>

Spans(d) == {Inside, AtEnd(d)}

\* The raw error parse5 raises for a code over a span.
RawEvent(c, sp) ==
  [code        |-> c,
   startLine   |-> sp[1].line,
   startCol    |-> sp[1].column,
   startOffset |-> sp[1].offset,
   endLine     |-> sp[2].line,
   endCol      |-> sp[2].column,
   endOffset   |-> sp[2].offset]

\* The raw errors parse5 may raise on a document: of a rule of the catalog
\* at either place, of another code inside the document.
RawEvents(d) ==
  {RawEvent(c, sp) : c \in RuleCodes, sp \in Spans(d)}
    \cup {RawEvent(c, Inside) : c \in MissingCodes}

-----------------------------------------------------------------------------
(* Actions                                                                 *)

\* Before fromHtml is called.
Idle ==
  /\ pc = "idle"
  /\ file = Undefined
  /\ doc = <<>>
  /\ options = NoProperties
  /\ warn = Null
  /\ onParseError = Null
  /\ raised = <<>>
  /\ constructed = 0
  /\ calls = <<>>
  /\ errors = Catalog
  /\ thrown = Undefined
  /\ stack = <<>>
  /\ previous = Undefined

Init ==
  /\ Idle
  /\ args = Undefined
  /\ ret = Undefined

\* value instanceof VFile ? value : new VFile(value)
toVFile(value) ==
  IF value.t = "vfile" THEN value ELSE VFile(value.v, Undefined)

\* enter with onerror given to parse5 whether or not there is a sink.
enterAlwaysRegisters(value, opts) ==
  /\ options' = opts
  /\ warn' = (IF truthy(get(opts, OnerrorKey))
              THEN get(opts, OnerrorKey) ELSE Null)
  /\ file' = toVFile(value)
  /\ doc' = toVFile(value).value
  /\ onParseError' = Onerror
  /\ pc' = "parsing"

\* The body of fromHtml up to the call of parse5: its local constants.
enter(value, opts) ==
  /\ options' = opts
  /\ warn' = (IF truthy(get(opts, OnerrorKey))
              THEN get(opts, OnerrorKey) ELSE Null)
  /\ file' = toVFile(value)
  /\ doc' = toVFile(value).value
  /\ onParseError' = (IF truthy(get(opts, OnerrorKey))
                      THEN Onerror ELSE Null)
  /\ pc' = "parsing"

\* fromHtml(value, options) up to the call of parse5.
fromHtml(value, opts) ==
  /\ pc = "idle"
  /\ enter(value, opts)
  /\ UNCHANGED <<raised, constructed, calls, errors, thrown, stack, previous,
                 args, ret>>

\* onerror storing the level it resolved back into the options.
onerrorStoringLevel(error) ==
  /\ pc = "parsing"
  /\ Len(raised) < MaxEvents
  /\ onParseError = Onerror
  /\ raised' = Append(raised, error)
  /\ LET code    == error.code
         name    == camelcase(code)
         level   == severity(name, options)
     IN  /\ options' = (name :> level) @@ options
         /\ IF truthy(level)
            THEN LET message == messageOf(error, name, level, file, doc)
                 IN  /\ constructed' = constructed + 1
                     /\ calls' = call(calls, warn, <<message>>)
                     /\ pc' = "sink"
            ELSE UNCHANGED <<pc, constructed, calls>>
  /\ UNCHANGED <<file, doc, warn, onParseError, errors, thrown, stack,
                 previous, args, ret>>

\* onerror calling the sink the options hold when the error is handled.
onerrorLiveSink(error) ==
  /\ pc = "parsing"
  /\ Len(raised) < MaxEvents
  /\ onParseError = Onerror
  /\ raised' = Append(raised, error)
  /\ LET code    == error.code
         name    == camelcase(code)
         level   == severity(name, options)
     IN  IF truthy(level)
         THEN LET message == messageOf(error, name, level, file, doc)
              IN  /\ constructed' = constructed + 1
                  /\ calls' = call(calls, get(options, OnerrorKey), <<message>>)
                  /\ pc' = "sink"
         ELSE UNCHANGED <<pc, constructed, calls>>
  /\ UNCHANGED <<file, doc, options, warn, onParseError, errors, thrown,
                 stack, previous, args, ret>>

\* parse5 detects an error and calls the handler it was given:
\* onerror(error), up to and including its call of warn.
onerror(error) ==
  /\ pc = "parsing"
  /\ Len(raised) < MaxEvents
  /\ onParseError = Onerror
  /\ raised' = Append(raised, error)
  /\ LET code    == error.code
         name    == camelcase(code)
         level   == severity(name, options)
     IN  IF truthy(level)
         THEN LET message == messageOf(error, name, level, file, doc)
              IN  /\ constructed' = constructed + 1
                  /\ calls' = call(calls, warn, <<message>>)
                  /\ pc' = "sink"
         ELSE UNCHANGED <<pc, constructed, calls>>
  /\ UNCHANGED <<file, doc, options, warn, onParseError, errors, thrown,
                 stack, previous, args, ret>>

\* parse5 detects an error and was given no handler (onParseError: null).
parseErrorUnhandled(error) ==
  /\ pc = "parsing"
  /\ Len(raised) < MaxEvents
  /\ onParseError = Null
  /\ raised' = Append(raised, error)
  /\ UNCHANGED <<pc, file, doc, options, warn, onParseError, constructed,
                 calls, errors, thrown, stack, previous, args, ret>>

\* warn(message) returns, and with it onerror: parse5 goes on.
sinkReturns ==
  /\ pc = "sink"
  /\ warn # ThrowingSink
  /\ pc' = "parsing"
  /\ UNCHANGED <<file, doc, options, warn, onParseError, raised, constructed,
                 calls, errors, thrown, stack, previous, args, ret>>

\* An exception that reaches fromHtml and is caught there.
uncaughtSwallowed(exception) == [pc |-> "parsing", thrown |-> Undefined]

\* An exception thrown inside warn(message): neither onerror nor fromHtml
\* has a try statement, so it ends every call on its way.
uncaught(exception) == [pc |-> "threw", thrown |-> exception]

\* warn(message) throws.
sinkThrows ==
  /\ pc = "sink"
  /\ warn = ThrowingSink
  /\ pc' = uncaught(SinkError).pc
  /\ thrown' = uncaught(SinkError).thrown
  /\ UNCHANGED <<file, doc, options, warn, onParseError, raised, constructed,
                 calls, errors, stack, previous, args, ret>>

\* The local constants of the running call of fromHtml, which its closure
\* onerror reads, and the errors its parser has raised.
frame ==
  [file |-> file, doc |-> doc, options |-> options, warn |-> warn,
   onParseError |-> onParseError, raised |-> raised]

\* The call a nested fromHtml returns into, had warn been one variable of the
\* module and no constant of each call.
callerSharingWarn(frames) == [frames[Len(frames)] EXCEPT !.warn = warn]

\* The call a nested fromHtml returns into: the innermost suspended one.
caller(frames) == frames[Len(frames)]

\* parse5 returns and fromHtml returns the tree of fromParse5: to the caller,
\* or into the sink that called it.
fromHtmlReturn ==
  /\ pc = "parsing"
  /\ IF stack = <<>>
     THEN /\ pc' = "done"
          /\ UNCHANGED <<file, doc, options, warn, onParseError, raised,
                         stack>>
     ELSE /\ pc' = "sink"
          /\ file' = caller(stack).file
          /\ doc' = caller(stack).doc
          /\ options' = caller(stack).options
          /\ warn' = caller(stack).warn
          /\ onParseError' = caller(stack).onParseError
          /\ raised' = caller(stack).raised
          /\ stack' = SubSeq(stack, 1, Len(stack) - 1)
  /\ UNCHANGED <<constructed, calls, errors, thrown, previous, args, ret>>

\* The caller, having kept what a finished parse was given and what it
\* delivered, calls fromHtml once more and logs and counts afresh.
fromHtmlAgain(value, opts) ==
  /\ pc = "done"
  /\ previous' = [t |-> "finished", file |-> file, options |-> options,
                  raised |-> raised, calls |-> calls]
  /\ raised' = <<>>
  /\ constructed' = 0
  /\ calls' = <<>>
  /\ enter(value, opts)
  /\ UNCHANGED <<errors, thrown, stack, args, ret>>

Next ==
  \/ \E value \in Values, opts \in OptionsObjects : fromHtml(value, opts)
  \/ \E error \in RawEvents(doc) : onerror(error)
  \/ \E error \in RawEvents(doc) : parseErrorUnhandled(error)
  \/ sinkReturns
  \/ sinkThrows
  \/ fromHtmlReturn

Spec == Init /\ [][Next]_vars

-----------------------------------------------------------------------------
(* One document parsed again and again under different options             *)

PairValues ==
  {VFile(<<NUL, Backtick>> \o Str(">"), JsStr(Str("example.html")))}

\* The two rules of these parses, by name and by code.
PairNames == {Str("endTagWithTrailingSolidus"), Str("missingDoctype")}
PairCodes == {Str("end-tag-with-trailing-solidus"), Str("missing-doctype")}

\* A sink, and each of the two rules left alone, turned off or made fatal.
PairOptions ==
  {(OnerrorKey :> Sink) @@ r :
     r \in {[k \in names |-> s[k]] :
              names \in SUBSET PairNames,
              s \in [PairNames -> {Bool(FALSE), Num(2)}]}}

PairEvents(d) == {RawEvent(c, Inside) : c \in PairCodes}

PairNext ==
  \/ \E value \in PairValues, opts \in PairOptions : fromHtml(value, opts)
  \/ \E value \in PairValues, opts \in PairOptions :
       fromHtmlAgain(value, opts)
  \/ \E error \in PairEvents(doc) : onerror(error)
  \/ sinkReturns
  \/ fromHtmlReturn

PairSpec == Init /\ [][PairNext]_vars

-----------------------------------------------------------------------------
(* A sink that parses another document while it handles a message          *)

\* Inside warn(message), the sink calls fromHtml: the running call waits
\* with its constants, and the new call has its own.
sinkCallsFromHtml(value, opts) ==
  /\ pc = "sink"
  /\ warn = NestingSink
  /\ Len(stack) < MaxDepth
  /\ constructed < MaxMessages
  /\ stack' = Append(stack, frame)
  /\ raised' = <<>>
  /\ enter(value, opts)
  /\ UNCHANGED <<constructed, calls, errors, thrown, previous, args, ret>>

\* The calls of fromHtml made: a string parsed with a sink that parses in
\* turn, one rule made fatal and one turned off; a file parsed with a plain
\* sink and the latter rule made fatal.
NestedCalls ==
  {<<JsStr(Str("</x/>")),
     (OnerrorKey :> NestingSink)
       @@ (Str("endTagWithTrailingSolidus") :> Num(2))
       @@ (Str("unexpectedNullCharacter") :> Bool(FALSE))>>,
   <<VFile(<<NUL, Backtick>> \o Str(">"), JsStr(Str("example.html"))),
     (OnerrorKey :> Sink)
       @@ (Str("unexpectedNullCharacter") :> Num(2))>>}

NestedCodes ==
  {Str("end-tag-with-trailing-solidus"), Str("unexpected-null-character")}

\* Where parse5 locates an error in these documents: over the character
\* before the last.
NearEnd(d) ==
  <<Point(1, Len(d) - 1, Len(d) - 2), Point(1, Len(d), Len(d) - 1)>>

NestedEvents(d) == {RawEvent(c, NearEnd(d)) : c \in NestedCodes}

NestedNext ==
  \/ \E c \in NestedCalls : fromHtml(c[1], c[2])
  \/ \E c \in NestedCalls : sinkCallsFromHtml(c[1], c[2])
  \/ \E error \in NestedEvents(doc) : onerror(error)
  \/ sinkReturns
  \/ fromHtmlReturn

NestedSpec == Init /\ [][NestedNext]_vars

-----------------------------------------------------------------------------
(* A sink that writes to the options object while the parse runs           *)

\* Inside warn(message), the sink assigns to a property of the options
\* object the caller gave to fromHtml, which is the object onerror reads.
sinkSetsOption(key, setting) ==
  /\ pc = "sink"
  /\ warn = MeddlingSink
  /\ options' = (key :> setting) @@ options
  /\ UNCHANGED <<pc, file, doc, warn, onParseError, raised, constructed,
                 calls, errors, thrown, stack, previous, args, ret>>

\* The options given: the sink that writes, and at most one of the two
\* rules turned off or made fatal.
MutableOptions ==
  {(OnerrorKey :> MeddlingSink) @@ r :
     r \in {NoProperties}
             \cup {k :> s : k \in PairNames, s \in {Bool(FALSE), Num(2)}}}

\* What the sink writes: another sink or null as onerror, and a rule turned
\* off, turned on or made fatal.
MutableWrites ==
  {<<OnerrorKey, Sink>>, <<OnerrorKey, Null>>}
    \cup {<<k, s>> : k \in PairNames, s \in {Bool(FALSE), Bool(TRUE), Num(2)}}

MutableNext ==
  \/ \E value \in Values, opts \in MutableOptions : fromHtml(value, opts)
  \/ \E w \in MutableWrites : sinkSetsOption(w[1], w[2])
  \/ \E error \in PairEvents(doc) : onerror(error)
  \/ sinkReturns
  \/ fromHtmlReturn

MutableSpec == Init /\ [][MutableNext]_vars

-----------------------------------------------------------------------------
(* format on its own: every template, document and start offset            *)

\* The most pieces of a template, and the longest document.
MaxPieces == 3
MaxDocLen == 2

\* What templates are made of: the two placeholders, their characters, a
\* sign, a digit, a signed digit, and a letter.
Pieces ==
  {Str("%c"), Str("%x"), Str("%"), Str("x"), Str("+"), Str("1"), Str("-1"),
   Str("a")}

RECURSIVE Concatenations(_, _)
Concatenations(S, n) ==
  IF n = 0 THEN {<<>>}
  ELSE LET shorter == Concatenations(S, n - 1)
       IN  shorter \cup {s \o p : s \in shorter, p \in S}

Templates == Concatenations(Pieces, MaxPieces)

\* The code units of the documents.
DocUnits == {NUL, Backtick, Percent, Surrogate}

Docs == Concatenations({<<u>> : u \in DocUnits}, MaxDocLen)

FormatInit ==
  /\ Idle
  /\ ret = Undefined
  /\ args \in [value : Templates, doc : Docs,
               error : [startOffset : 0..MaxDocLen]]
  /\ args.error.startOffset <= Len(args.doc)

\* format(value) with doc and error.startOffset as given.
formatCall ==
  /\ ret = Undefined
  /\ ret' = JsStr(format(args.value, args.doc, args.error))
  /\ UNCHANGED <<parse, args>>

FormatNext == formatCall

FormatSpec == FormatInit /\ [][FormatNext]_vars

-----------------------------------------------------------------------------
(* camelcase on its own: every short string, and the rule codes            *)

\* The longest string camelcase is applied to, the rule codes apart.
MaxCodeLen == 4

\* The code units of those strings: the ends of a-z, a hyphen, an upper-case
\* letter and a digit.
CodeUnits == {LowerA, LowerZ, Minus, UpperA, Digit0}

CodeStrings == Concatenations({<<u>> : u \in CodeUnits}, MaxCodeLen)

CamelInit ==
  /\ Idle
  /\ ret = Undefined
  /\ args \in [value : CodeStrings \cup RuleCodes]

\* camelcase(value)
camelcaseCall ==
  /\ ret = Undefined
  /\ ret' = JsStr(camelcase(args.value))
  /\ UNCHANGED <<parse, args>>

CamelNext == camelcaseCall

CamelSpec == CamelInit /\ [][CamelNext]_vars

-----------------------------------------------------------------------------
(* camelcase and kebab one after the other, in either order                *)

Results(strings) == [t |-> "results", v |-> strings]

\* What the next function is applied to: the value, or the last result.
operand == IF ret = Undefined THEN args.value ELSE ret.v[Len(ret.v)]

\* How many of the two functions have been applied.
applied == IF ret = Undefined THEN 0 ELSE Len(ret.v)

RoundTripInit ==
  /\ Idle
  /\ ret = Undefined
  /\ args \in [value : CodeStrings \cup RuleCodes \cup RuleNames,
               first : {"camelcase", "kebab"}]

\* camelcase, first on the value or second on what kebab gave.
camelcaseApplied ==
  /\ \/ applied = 0 /\ args.first = "camelcase"
     \/ applied = 1 /\ args.first = "kebab"
  /\ ret' = Results((IF ret = Undefined THEN <<>> ELSE ret.v)
                      \o <<camelcase(operand)>>)
  /\ UNCHANGED <<parse, args>>

\* kebab, first on the value or second on what camelcase gave.
kebabApplied ==
  /\ \/ applied = 0 /\ args.first = "kebab"
     \/ applied = 1 /\ args.first = "camelcase"
  /\ ret' = Results((IF ret = Undefined THEN <<>> ELSE ret.v)
                      \o <<kebab(operand)>>)
  /\ UNCHANGED <<parse, args>>

RoundTripNext == camelcaseApplied \/ kebabApplied

RoundTripSpec == RoundTripInit /\ [][RoundTripNext]_vars

-----------------------------------------------------------------------------
(* The severity of a rule on its own: every value an option may hold       *)

\* A value that is no primitive.
Object == [t |-> "object"]

\* What a caller can store under a rule's name: the documented values, other
\* numbers, NaN, strings, and an object.
AnySettings ==
  Settings \cup {Num(0 - 1), Num(3), NaN, JsStr(<<>>), JsStr(Str("2")),
                 JsStr(Str("off")), Object}

SeverityOptions ==
  {NoProperties} \cup {k :> s : k \in RuleNames, s \in AnySettings}

SeverityInit ==
  /\ Idle
  /\ ret = Undefined
  /\ args \in [name : RuleNames, options : SeverityOptions]

\* The level onerror works out for args.name under args.options.
severityCall ==
  /\ ret = Undefined
  /\ ret' = severity(args.name, args.options)
  /\ UNCHANGED <<parse, args>>

SeverityNext == severityCall

SeveritySpec == SeverityInit /\ [][SeverityNext]_vars

-----------------------------------------------------------------------------
(* What the documentation says, for the claims below                       *)

\* The documented option name of each rule code.
ClaimKey ==
  (Str("missing-doctype") :> Str("missingDoctype"))
  @@ (Str("end-tag-with-trailing-solidus") :> Str("endTagWithTrailingSolidus"))
  @@ (Str("unexpected-null-character") :> Str("unexpectedNullCharacter"))
  @@ (Str("no-such-rule") :> Str("noSuchRule"))

\* The documented templates of a rule code: its catalog entry, or empty
\* texts when the catalog has none.
ClaimEntry(code) ==
  IF ClaimKey[code] \in DOMAIN Catalog THEN Catalog[ClaimKey[code]]
  ELSE [reason |-> <<>>, description |-> <<>>]

\* The documented prefix of a rule's URL.
ClaimBase ==
  Str("https://html.spec.whatwg.org/multipage/parsing.html#parse-error-")

\* The texts the tests expect for a trailing solidus at a slash, and the
\* texts of a NULL character error raised at a backtick.
ClaimSolidusCode    == Str("end-tag-with-trailing-solidus")
ClaimSolidusMessage == Str("Unexpected slash at end of closing tag")
ClaimSolidusNote ==
  Str("Unexpected ") \o Q(Str("/")) \o Str(". Expected ") \o Q(Str(">"))
    \o Str(" instead")
ClaimSolidusDoc     == Str("</x/>")
ClaimNullCode       == Str("unexpected-null-character")
ClaimNullMessage    == Str("Unexpected NULL character")
ClaimNullNote ==
  Str("Unexpected code point ") \o Q(Str("0x60"))
    \o Str(". Do not use NULL characters in HTML")
ClaimNullDoc        == <<NUL, Backtick>> \o Str(">")

\* The caller's override for the rule of a raw event.
ClaimOverride(error) == get(options, ClaimKey[error.code])

\* The caller supplied a sink.
ClaimSinkSupplied == get(options, OnerrorKey) = Sink

\* The override turns the rule off.
ClaimOff(error) == ClaimOverride(error) \in {Bool(FALSE), Num(0)}

ClaimOn(error) == ~ClaimOff(error)

\* The raw events of the parse that are not turned off, in the order raised.
ClaimDelivered == SelectSeq(raised, ClaimOn)

\* The diagnostic of the i-th call of the sink.
ClaimDiagnostic(i) == calls[i].args[1]

\* A small non-negative number in decimal.
ClaimDecimal(n) == Str(SubSeq("0123456789", n + 1, n + 1))

\* startLine:startCol-endLine:endCol
ClaimRange(error) ==
  ClaimDecimal(error.startLine) \o Str(":") \o ClaimDecimal(error.startCol)
    \o Str("-")
    \o ClaimDecimal(error.endLine) \o Str(":") \o ClaimDecimal(error.endCol)

-----------------------------------------------------------------------------
(* Claims                                                                  *)

\* C1: when the caller's override for a rule's normalized identifier is
\* false or 0, the sink is never invoked for an event of that rule and no
\* diagnostic is built for it: every call of the sink is for a rule that is
\* not turned off, and neither the calls nor the diagnostics built outnumber
\* the events that are not turned off.
C1_OffIsNeverDelivered ==
  /\ \A i \in 1..Len(calls) :
       \E j \in 1..Len(raised) :
         /\ raised[j].code = ClaimDiagnostic(i).ruleId
         /\ ClaimOn(raised[j])
  /\ \A i \in 1..Len(calls) :
       get(options, ClaimKey[ClaimDiagnostic(i).ruleId])
         \notin {Bool(FALSE), Num(0)}
  /\ Len(calls) <= Len(ClaimDelivered)
  /\ constructed <= Len(ClaimDelivered)

\* C1 witness: with a sink supplied, one event of a rule set to 0 and one of
\* a rule set to false were raised, and nothing was built or delivered.
C1_Witness ==
  /\ ClaimSinkSupplied
  /\ Len(raised) = 2
  /\ ClaimOverride(raised[1]) = Num(0)
  /\ ClaimOverride(raised[2]) = Bool(FALSE)
  /\ calls = <<>>
  /\ constructed = 0

\* C2: with a sink supplied, every event whose override is absent, null,
\* undefined, true or 1 is delivered with fatal false, every event whose
\* override is 2 is delivered with fatal true, and no delivered diagnostic
\* has fatal null.
C2_FatalFollowsOverride ==
  ClaimSinkSupplied =>
    /\ Len(calls) = Len(ClaimDelivered)
    /\ \A i \in 1..Len(calls) :
         LET e == ClaimDelivered[i]
             m == ClaimDiagnostic(i)
         IN  /\ m.ruleId = e.code
             /\ ClaimOverride(e) \in {Undefined, Null, Bool(TRUE), Num(1)}
                  => m.fatal = Bool(FALSE)
             /\ ClaimOverride(e) = Num(2) => m.fatal = Bool(TRUE)
             /\ m.fatal # Null

\* C2 witness: a fatal and a non-fatal diagnostic were delivered in one parse.
C2_Witness ==
  /\ ClaimSinkSupplied
  /\ Len(calls) = 2
  /\ ClaimOverride(raised[1]) = Num(2)
  /\ ClaimDiagnostic(1).fatal = Bool(TRUE)
  /\ ClaimOverride(raised[2]) = Undefined
  /\ ClaimDiagnostic(2).fatal = Bool(FALSE)

\* C3: with a sink supplied, at every moment of the parse the calls of the
\* sink are exactly the events raised so far that are not turned off: one call
\* per such event, to the sink, with one argument, in the order raised, the
\* i-th call carrying the ruleId and position of the i-th such event.
C3_OneCallPerEventInOrder ==
  ClaimSinkSupplied =>
    /\ Len(calls) = Len(ClaimDelivered)
    /\ \A i \in 1..Len(calls) :
         LET e == ClaimDelivered[i]
         IN  /\ calls[i].fn = Sink
             /\ Len(calls[i].args) = 1
             /\ ClaimDiagnostic(i).ruleId = e.code
             /\ ClaimDiagnostic(i).position.start.offset = e.startOffset
             /\ ClaimDiagnostic(i).position.end.offset = e.endOffset

\* C3 witness: two events of different rules at different places were
\* delivered while the parse is still running.
C3_Witness ==
  /\ pc = "parsing"
  /\ ClaimSinkSupplied
  /\ Len(calls) = 2
  /\ raised[1].code # raised[2].code
  /\ raised[1].startOffset # raised[2].startOffset

-----------------------------------------------------------------------------
(* Claims about format: what the documentation says                        *)

\* The %c placeholders of the templates, with the offset each one writes.
ClaimPlaceholdersC ==
  {[text |-> Str("%c"),    offset |-> 0],
   [text |-> Str("%c-1"),  offset |-> 0 - 1],
   [text |-> Str("%c+1"),  offset |-> 1]}

\* Template text around a placeholder that is no part of it: nothing, a
\* letter, and after an unsigned %c a sign without digits or a digit without
\* sign.
ClaimPlain == {<<>>, Str("a"), Str("aa")}

ClaimAfterC(ph) ==
  IF ph.offset = 0 /\ ph.text = Str("%c")
  THEN ClaimPlain \cup {Str("+"), Str("1"), Str("+a")}
  ELSE ClaimPlain

\* What a %c placeholder stands for when it selects code unit u.
ClaimSubstituteC(u) ==
  IF u = Backtick THEN <<Backtick, Ch(" "), Backtick, Ch(" "), Backtick>>
  ELSE <<u>>

\* The documented rendering of %x for each code unit of the documents.
ClaimHex ==
  (NUL :> Str("0x0")) @@ (Backtick :> Str("0x60")) @@ (Percent :> Str("0x25"))
    @@ (Surrogate :> Str("0xD800"))

\* Template text after %x: nothing, a letter, or a sign and digits.
ClaimAfterX == ClaimPlain \cup {Str("-1"), Str("+1"), Str("+11"), Str("-1a")}

\* C5: a template made of a %c placeholder between plain text renders as that
\* text around the character of the document at startOffset plus the signed
\* offset written after %c (0 when none is written), the character being
\* replaced by backtick, space, backtick, space, backtick when it is a
\* backtick.
C5_PercentCSubstitutesCharacter ==
  ret # Undefined =>
    \A ph \in ClaimPlaceholdersC :
      \A before \in ClaimPlain, after \in ClaimAfterC(ph) :
        LET at == args.error.startOffset + ph.offset
        IN  (/\ args.value = before \o ph.text \o after
             /\ at >= 0
             /\ at < Len(args.doc))
              => ret = JsStr(before \o ClaimSubstituteC(args.doc[at + 1]) \o after)

\* C5 witness: %c-1 was rendered where the preceding character is a backtick
\* and the character at startOffset is not.
C5_Witness ==
  /\ ret # Undefined
  /\ args.value = Str("%c-1")
  /\ args.error.startOffset = 1
  /\ args.doc = <<Backtick, Percent>>
  /\ ret = JsStr(<<Backtick, Ch(" "), Backtick, Ch(" "), Backtick>>)

\* C6: for every document and start offset inside it, a template made of %x
\* between plain text renders as that text around 0x and the upper-case
\* hexadecimal value, without leading zeros, of the character at startOffset;
\* a sign and digits after %x stay as they are.
C6_PercentXIsUpperHex ==
  ret # Undefined =>
    \A before \in ClaimPlain, after \in ClaimAfterX :
      (/\ args.value = before \o Str("%x") \o after
       /\ args.error.startOffset < Len(args.doc))
        => ret = JsStr(before \o ClaimHex[args.doc[args.error.startOffset + 1]]
                         \o after)

\* C6 witness: %x-1 was rendered at a lone surrogate that follows a NUL.
C6_Witness ==
  /\ ret # Undefined
  /\ args.value = Str("%x-1")
  /\ args.doc = <<NUL, Surrogate>>
  /\ args.error.startOffset = 1
  /\ ret = JsStr(Str("0xD800-1"))

-----------------------------------------------------------------------------
(* Claims about the diagnostic's fields                                    *)

\* C7: when the file has a path, a delivered diagnostic's name is the path, a
\* colon and startLine:startCol-endLine:endCol, and its field file is the
\* path; when the file has no path, name is the range alone and there is no
\* field file.
C7_NameAndFile ==
  ClaimSinkSupplied =>
    \A i \in 1..Len(calls) :
      LET e == ClaimDelivered[i]
          m == ClaimDiagnostic(i)
      IN  IF file.path # Undefined
          THEN /\ m.name = file.path.v \o Str(":") \o ClaimRange(e)
               /\ "file" \in DOMAIN m
               /\ m.file = file.path.v
          ELSE /\ m.name = ClaimRange(e)
               /\ "file" \notin DOMAIN m

\* C7 witness: a diagnostic of the file example.html was delivered, named
\* example.html:1:2-1:3.
C7_Witness ==
  /\ Len(calls) = 1
  /\ file.path = JsStr(Str("example.html"))
  /\ ClaimDiagnostic(1).name = Str("example.html:1:2-1:3")
  /\ ClaimDiagnostic(1).file = Str("example.html")

\* C7 witness without a path: a diagnostic named 1:2-1:3 was delivered.
C7_WitnessNoPath ==
  /\ Len(calls) = 1
  /\ file.path = Undefined
  /\ ClaimDiagnostic(1).name = Str("1:2-1:3")

ClaimText(value) == IF value.t = "vfile" THEN value.value ELSE value.v

\* The texts around the placeholder of the two descriptions that have one.
ClaimSolidusBefore == Str("Unexpected ") \o <<Backtick>>
ClaimSolidusAfter ==
  <<Backtick>> \o Str(". Expected ") \o Q(Str(">")) \o Str(" instead")
ClaimNullBefore == Str("Unexpected code point ") \o <<Backtick>>
ClaimNullAfter ==
  <<Backtick>> \o Str(". Do not use NULL characters in HTML")
ClaimDoctypeCode == Str("missing-doctype")
ClaimDoctypeNote ==
  Str("Expected a ") \o Q(Str("<!doctype html>")) \o Str(" before anything else")

\* The rendering of a rule's two templates against a text at an offset: the
\* reasons have no placeholder, one description has %c and one has %x.
ClaimRendering(code, text, offset) ==
  [message |-> ClaimEntry(code).reason,
   note    |->
     CASE code = ClaimSolidusCode ->
            ClaimSolidusBefore
              \o (IF offset < Len(text)
                  THEN ClaimSubstituteC(text[offset + 1]) ELSE <<>>)
              \o ClaimSolidusAfter
       [] code = ClaimNullCode ->
            ClaimNullBefore
              \o HexPrefix
              \o toUpperCase(toString(charCodeAt(text, offset), 16))
              \o ClaimNullAfter
       [] code = ClaimDoctypeCode -> ClaimDoctypeNote
       [] OTHER -> <<>>]

\* C9: a delivered diagnostic's message and reason are equal and are the
\* rendering of the rule's reason template, and its note is the rendering of
\* the rule's description template, both against the source text of the parse
\* and the event's startOffset.
C9_MessageReasonNote ==
  ClaimSinkSupplied =>
    \A i \in 1..Len(calls) :
      LET e     == ClaimDelivered[i]
          m     == ClaimDiagnostic(i)
          text  == file.value
          r     == ClaimRendering(e.code, text, e.startOffset)
      IN  /\ m.message = m.reason
          /\ m.message = r.message
          /\ m.note = r.note
          /\ (e.code = ClaimSolidusCode /\ text = ClaimSolidusDoc
                /\ e.startOffset = 1)
               => /\ m.message = ClaimSolidusMessage
                  /\ m.note = ClaimSolidusNote
          /\ (e.code = ClaimNullCode /\ text = ClaimNullDoc
                /\ e.startOffset = 1)
               => /\ m.message = ClaimNullMessage
                  /\ m.note = ClaimNullNote

\* C9 witness: the diagnostic of a trailing solidus in </x/> was delivered
\* with its slash in the note.
C9_Witness ==
  /\ Len(calls) = 1
  /\ raised[1].code = ClaimSolidusCode
  /\ doc = ClaimSolidusDoc
  /\ raised[1].startOffset = 1
  /\ ClaimDiagnostic(1).note = ClaimSolidusNote

-----------------------------------------------------------------------------
(* Claims about camelcase                                                  *)

\* A hyphen-case code: lower-case ASCII words separated by single hyphens.
ClaimHyphenCase(v) ==
  /\ v # <<>>
  /\ \A i \in 1..Len(v) : v[i] = Minus \/ (v[i] >= LowerA /\ v[i] <= LowerZ)
  /\ v[1] # Minus
  /\ v[Len(v)] # Minus
  /\ \A i \in 1..(Len(v) - 1) : ~(v[i] = Minus /\ v[i + 1] = Minus)

\* The code without its hyphens, the character after each hyphen in upper
\* case: built from the last character backwards.
RECURSIVE ClaimCamel(_, _)
ClaimCamel(v, n) ==
  IF n = 0 THEN <<>>
  ELSE IF v[n] = Minus THEN ClaimCamel(v, n - 1)
  ELSE IF n > 1 /\ v[n - 1] = Minus
       THEN Append(ClaimCamel(v, n - 1), v[n] - (LowerA - UpperA))
       ELSE Append(ClaimCamel(v, n - 1), v[n])

\* C10: camelcase gives a string for every input, and for a hyphen-case code
\* the code with each hyphen removed, the character after each hyphen in
\* upper case and every other character kept in place;
\* end-tag-with-trailing-solidus gives endTagWithTrailingSolidus.
C10_CamelcaseOfHyphenCase ==
  ret # Undefined =>
    /\ ret.t = "string"
    /\ ClaimHyphenCase(args.value)
         => ret.v = ClaimCamel(args.value, Len(args.value))
    /\ args.value = Str("end-tag-with-trailing-solidus")
         => ret.v = Str("endTagWithTrailingSolidus")

\* C10 witness: a code of three words was normalized.
C10_Witness ==
  /\ ret # Undefined
  /\ args.value = Str("end-tag-with-trailing-solidus")
  /\ ret = JsStr(Str("endTagWithTrailingSolidus"))

\* C10 witness among the short strings: a-z gives aZ.
C10_WitnessShort ==
  /\ args.value = Str("a-z")
  /\ ret = JsStr(Str("aZ"))

ClaimSinkThrows == get(options, OnerrorKey) = ThrowingSink

\* C13: an exception the sink throws while it receives a diagnostic is not
\* caught: once such a sink has been called the parse neither goes on nor
\* returns, fromHtml ends with the very exception of the sink, and no event
\* is handled after the one delivered; with a sink that does not throw, or
\* with none, fromHtml never throws.
C13_SinkExceptionPropagates ==
  /\ (pc = "threw") <=> (thrown # Undefined)
  /\ ClaimSinkThrows =>
       /\ Len(calls) <= 1
       /\ calls # <<>> =>
            /\ pc \in {"sink", "threw"}
            /\ calls[1].fn = ThrowingSink
            /\ ClaimDiagnostic(1).ruleId = raised[Len(raised)].code
            /\ \A j \in 1..(Len(raised) - 1) : ClaimOff(raised[j])
       /\ pc = "threw" => (thrown = SinkError /\ Len(calls) = 1)
  /\ ~ClaimSinkThrows => (pc # "threw" /\ thrown = Undefined)

\* C13 witness: after an event that was turned off, the sink was called for a
\* second event and threw, and fromHtml ended with its exception.
C13_Witness ==
  /\ ClaimSinkThrows
  /\ pc = "threw"
  /\ thrown = SinkError
  /\ Len(raised) = 2
  /\ ClaimOff(raised[1])
  /\ Len(calls) = 1

\* C14: when the caller supplies no sink, whatever the overrides and the
\* events, onerror is not given to parse5, warn is null and is never called,
\* no diagnostic is built, and fromHtml does not throw.
C14_NoSinkNothingObservable ==
  (pc # "idle" /\ OnerrorKey \notin DOMAIN options) =>
    /\ onParseError = Null
    /\ warn = Null
    /\ calls = <<>>
    /\ constructed = 0
    /\ pc \in {"parsing", "done"}
    /\ thrown = Undefined

\* C14 witness: without a sink and with a rule made fatal, two events were
\* raised, the first of that rule, and the parse returned with no call made.
C14_Witness ==
  /\ pc = "done"
  /\ OnerrorKey \notin DOMAIN options
  /\ Len(raised) = 2
  /\ ClaimOverride(raised[1]) = Num(2)
  /\ ClaimOverride(raised[2]) = Undefined
  /\ calls = <<>>

\* C15: for every value a caller can store under a rule's name, malformed
\* ones included, the severity resolved for the rule is one of the integers
\* 0, 1 and 2.
C15_SeverityIsZeroOneOrTwo ==
  ret # Undefined => ret \in {Num(0), Num(1), Num(2)}

\* One scan of a template from left to right, from index i: a %c with its
\* sign and digits, or a %x, gives way to its substitution and the scan goes
\* on after the placeholder; every other character is copied.
RECURSIVE ClaimScanOnce(_, _, _, _)
ClaimScanOnce(value, i, text, at) ==
  IF i > Len(value) THEN <<>>
  ELSE IF value[i] = Percent /\ i + 1 <= Len(value) /\ value[i + 1] = LowerC
       THEN LET signed == /\ i + 2 <= Len(value)
                          /\ value[i + 2] \in {Minus, Plus}
                          /\ digitRun(value, i + 3) > 0
                n      == IF signed THEN digitRun(value, i + 3) ELSE 0
                g1     == IF signed THEN <<value[i + 2]>> ELSE <<>>
                g2     == IF signed THEN SubSeq(value, i + 3, i + 2 + n) ELSE <<>>
                next   == IF signed THEN i + 3 + n ELSE i + 2
            IN  replacerC(g1, g2, text, at) \o ClaimScanOnce(value, next, text, at)
       ELSE IF value[i] = Percent /\ i + 1 <= Len(value) /\ value[i + 1] = LowerX
       THEN replacerX(text, at) \o ClaimScanOnce(value, i + 2, text, at)
       ELSE <<value[i]>> \o ClaimScanOnce(value, i + 1, text, at)

\* C16: rendering is one scan of the template from left to right with
\* placeholders that do not overlap: the characters of the template outside
\* a %c or %x placeholder are in the output unchanged, and the text put in
\* for a placeholder is never expanded as a placeholder itself.
C16_OneScanNoReexpansion ==
  ret # Undefined =>
    ret = JsStr(ClaimScanOnce(args.value, 1, args.doc, args.error))

\* A string of ASCII letters, as the keys of the catalog are.
ClaimLetters(v) ==
  /\ v # <<>>
  /\ \A i \in 1..Len(v) :
       \/ v[i] >= LowerA /\ v[i] <= LowerZ
       \/ v[i] >= UpperA /\ v[i] <= UpperZ

\* C17: the two forms of an identifier convert into each other: the
\* hyphen-case form the documentation script makes of a catalog key (of any
\* key made of letters) normalizes back to the key, and what normalization
\* makes of a hyphen-case code of lower-case words converts back to the code.
C17_RoundTrip ==
  applied = 2 =>
    /\ (args.first = "kebab"
          /\ (args.value \in DOMAIN Catalog \/ ClaimLetters(args.value)))
         => /\ ret.v[2] = args.value
            /\ ClaimHyphenCase(ret.v[1]) \/ ret.v[1][1] = Minus
    /\ (args.first = "camelcase" /\ ClaimHyphenCase(args.value))
         => /\ ret.v[2] = args.value
            /\ ClaimLetters(ret.v[1])

\* C17 witness: a catalog key of four words went to hyphen-case and back.
C17_Witness ==
  /\ applied = 2
  /\ args.first = "kebab"
  /\ args.value = Str("endTagWithTrailingSolidus")
  /\ ret.v = <<Str("end-tag-with-trailing-solidus"),
               Str("endTagWithTrailingSolidus")>>

\* C17 witness the other way: a code of two words went to its key and back.
C17_WitnessFromCode ==
  /\ applied = 2
  /\ args.first = "camelcase"
  /\ args.value = Str("missing-doctype")
  /\ ret.v = <<Str("missingDoctype"), Str("missing-doctype")>>

\* The diagnostics a log of calls holds for a raw event: none when the event
\* was suppressed.
ClaimDiagnosticsOf(log, e) ==
  {log[i].args[1] :
     i \in {j \in 1..Len(log) :
              /\ log[j].args[1].ruleId = e.code
              /\ log[j].args[1].position.start.offset = e.startOffset}}

ClaimRange2(events) == {events[i] : i \in 1..Len(events)}

\* C18: severity is decided rule by rule: when one document was parsed under
\* two configurations that store the same value under a rule's normalized
\* identifier, whatever else they store, an event of that rule raised in both
\* parses has the same outcome in both: suppressed in both, or delivered with
\* the same diagnostic.
C18_RuleDecidedOnItsOwn ==
  (pc = "done" /\ previous # Undefined /\ previous.file = file) =>
    \A e \in ClaimRange2(raised) \cap ClaimRange2(previous.raised) :
      get(options, ClaimKey[e.code]) = get(previous.options, ClaimKey[e.code])
        => ClaimDiagnosticsOf(calls, e) = ClaimDiagnosticsOf(previous.calls, e)

\* C18 witness: two finished parses of one document, each with an event of a
\* rule made fatal in both configurations and an event of a second rule,
\* which only the later configuration turns off: the first event was
\* delivered alike in both, the second only in the earlier parse.
C18_Witness ==
  /\ pc = "done"
  /\ previous # Undefined
  /\ previous.file = file
  /\ Len(raised) = 2
  /\ previous.raised = raised
  /\ ClaimOverride(raised[1]) = Num(2)
  /\ get(previous.options, ClaimKey[raised[1].code]) = Num(2)
  /\ ClaimOverride(raised[2]) = Bool(FALSE)
  /\ get(previous.options, ClaimKey[raised[2].code]) = Undefined
  /\ Len(calls) = 1
  /\ Len(previous.calls) = 2
  /\ calls[1] = previous.calls[1]

\* The call of fromHtml whose parser raised an event: the one whose document
\* has the event over its character before the last.
ClaimInvocation(e) ==
  CHOOSE c \in NestedCalls : Len(ClaimText(c[1])) = e.startOffset + 2

\* The path a value given to fromHtml has, if any.
ClaimPath(value) == IF value.t = "vfile" THEN value.path ELSE Undefined

\* C19: parses are isolated: when a sink starts a second parse while it
\* handles a diagnostic of the first, every event either parser raises is
\* handled for the invocation that raised it: suppressed when that
\* invocation's configuration turns its rule off, and otherwise delivered,
\* in one call, to that invocation's sink, with fatal from that invocation's
\* configuration, message and note rendered against that invocation's source
\* text and the file of that invocation's subject.
C19_ParsesAreIsolated ==
  [][(pc = "parsing" /\ stack' = stack /\ Len(raised') = Len(raised) + 1) =>
       LET e        == raised'[Len(raised')]
           inv      == ClaimInvocation(e)
           override == get(inv[2], ClaimKey[e.code])
           text     == ClaimText(inv[1])
           path     == ClaimPath(inv[1])
       IN  IF override \in {Bool(FALSE), Num(0)}
           THEN calls' = calls
           ELSE /\ Len(calls') = Len(calls) + 1
                /\ SubSeq(calls', 1, Len(calls)) = calls
                /\ LET c == calls'[Len(calls')]
                       m == c.args[1]
                       r == ClaimRendering(e.code, text, e.startOffset)
                   IN  /\ c.fn = get(inv[2], OnerrorKey)
                       /\ m.ruleId = e.code
                       /\ m.fatal = Bool(override = Num(2))
                       /\ m.message = r.message
                       /\ m.note = r.note
                       /\ IF path = Undefined
                          THEN "file" \notin DOMAIN m
                          ELSE /\ "file" \in DOMAIN m
                               /\ m.file = path.v]_vars

\* C19 witness: the outer parse delivered a fatal diagnostic to its sink,
\* which parsed a file whose parser raised an event delivered, under the
\* file's name, to the other sink; after that parse returned, the outer parse
\* delivered a second fatal diagnostic to its own sink.
C19_Witness ==
  /\ pc = "sink"
  /\ stack = <<>>
  /\ Len(calls) = 3
  /\ calls[1].fn = NestingSink
  /\ calls[1].args[1].fatal = Bool(TRUE)
  /\ "file" \notin DOMAIN calls[1].args[1]
  /\ calls[2].fn = Sink
  /\ calls[2].args[1].file = Str("example.html")
  /\ calls[2].args[1].ruleId = Str("unexpected-null-character")
  /\ calls[3] = calls[1]
  /\ doc = Str("</x/>")

\* C20: handling an event, suppressed or delivered, leaves the rule catalog,
\* the caller's configuration, the raw event and the source text as they
\* were: the catalog is the one loaded, the options, the file and its text
\* are unchanged, the event handled is a raw event of the parser as raised,
\* after the events handled before it, and the only effect is no call or one
\* call of the sink, after the calls made before it.
C20_HandlingChangesNothingElse ==
  [][(pc = "parsing" /\ Len(raised') = Len(raised) + 1) =>
       /\ errors = Catalog
       /\ errors' = errors
       /\ options' = options
       /\ file' = file
       /\ doc' = doc
       /\ doc' = file'.value
       /\ warn' = warn
       /\ thrown' = thrown
       /\ SubSeq(raised', 1, Len(raised)) = raised
       /\ raised'[Len(raised')] \in RawEvents(doc)
       /\ Len(calls') \in {Len(calls), Len(calls) + 1}
       /\ SubSeq(calls', 1, Len(calls)) = calls
       /\ Len(calls') = Len(calls) + 1 =>
            /\ calls'[Len(calls')].fn = warn
            /\ calls'[Len(calls')].args[1].position.start.offset
                 = raised'[Len(raised')].startOffset]_vars

\* C20 witness: a suppressed event and then a delivered event were handled
\* in a parse of a file, the second still in the hands of the sink, and the
\* override that suppressed the first is still in the options.
C20_Witness ==
  /\ pc = "sink"
  /\ Len(raised) = 2
  /\ Len(calls) = 1
  /\ ClaimOverride(raised[1]) = Bool(FALSE)
  /\ ClaimOverride(raised[2]) = Num(1)
  /\ ClaimDiagnostic(1).ruleId = raised[2].code
  /\ errors = Catalog
  /\ file.path = JsStr(Str("example.html"))

\* C11: normalization is injective on hyphen-case codes: the key camelcase
\* gives for a hyphen-case code is a string, and no other hyphen-case code
\* among the strings and the rule codes normalizes to the same key.
C11_NormalizationInjective ==
  (ret # Undefined /\ ClaimHyphenCase(args.value)) =>
    /\ ret.t = "string"
    /\ \A w \in CodeStrings \cup RuleCodes \cup MissingCodes :
         (ClaimHyphenCase(w) /\ w # args.value) => camelcase(w) # ret.v

\* C11 witness: a-a was normalized to aA, and aa is another code, whose
\* letters are the same.
C11_Witness ==
  /\ args.value = Str("a-a")
  /\ ret = JsStr(Str("aA"))
  /\ Str("aa") \in CodeStrings
  /\ ClaimHyphenCase(Str("aa"))

\* A digit or a letter from A to F.
ClaimHexDigit(c) == isDigit(c) \/ (c >= UpperA /\ c <= UpperA + 5)

\* C21: for every source text, the empty one included, and every start
\* offset up to and including the end of the text, rendering gives a string;
\* a %c placeholder between plain text whose position is outside the text
\* stands for the empty string; and what stands for a %x between plain text
\* is 0x followed by one or more characters from 0-9 and A-F.
C21_RenderingAtAndPastTheEnd ==
  ret # Undefined =>
    /\ ret.t = "string"
    /\ \A ph \in ClaimPlaceholdersC :
         \A before \in ClaimPlain, after \in ClaimAfterC(ph) :
           LET at == args.error.startOffset + ph.offset
           IN  (/\ args.value = before \o ph.text \o after
                /\ (at < 0 \/ at >= Len(args.doc)))
                 => ret = JsStr(before \o after)
    /\ \A before \in ClaimPlain, after \in ClaimAfterX :
         args.value = before \o Str("%x") \o after =>
           LET r      == ret.v
               digits == SubSeq(r, Len(before) + 3, Len(r) - Len(after))
           IN  /\ Len(r) >= Len(before) + 3 + Len(after)
               /\ SubSeq(r, 1, Len(before) + 2) = before \o HexPrefix
               /\ SubSeq(r, Len(r) - Len(after) + 1, Len(r)) = after
               /\ \A k \in 1..Len(digits) : ClaimHexDigit(digits[k])

\* The sink every one of the options objects given holds at the start.
ClaimSinkAtStart == MeddlingSink

\* C22: within one parse the sink is fixed at the start and overrides are
\* read when an event is handled: while the sink replaces onerror or writes
\* overrides on the options object, the calls made before stay as they were,
\* and every event is resolved with the override the options hold when it is
\* handled: suppressed when that is false or 0, and otherwise delivered, with
\* fatal by that override, to the sink supplied at the start.
C22_SinkFixedOverridesLive ==
  [][/\ Len(calls') >= Len(calls)
     /\ SubSeq(calls', 1, Len(calls)) = calls
     /\ (pc = "parsing" /\ Len(raised') = Len(raised) + 1) =>
          LET e        == raised'[Len(raised')]
              override == get(options, ClaimKey[e.code])
          IN  IF override \in {Bool(FALSE), Num(0)}
              THEN calls' = calls
              ELSE /\ Len(calls') = Len(calls) + 1
                   /\ calls'[Len(calls')].fn = ClaimSinkAtStart
                   /\ calls'[Len(calls')].args[1].ruleId = e.code
                   /\ calls'[Len(calls')].args[1].fatal
                        = Bool(override = Num(2))]_vars

\* C22 witness: the sink got a diagnostic of a rule left at its default,
\* put another sink in as onerror and made the rule fatal, and then got a
\* second diagnostic of the rule, which is fatal.
C22_Witness ==
  /\ Len(calls) = 2
  /\ Len(raised) = 2
  /\ raised[1].code = raised[2].code
  /\ calls[1].fn = MeddlingSink
  /\ calls[1].args[1].fatal = Bool(FALSE)
  /\ calls[2].fn = MeddlingSink
  /\ calls[2].args[1].fatal = Bool(TRUE)
  /\ get(options, OnerrorKey) = Sink
  /\ ClaimOverride(raised[2]) = Num(2)

\* C22 witness of a suppressed event: the sink got a diagnostic of a rule,
\* turned the rule off, and a second event of the rule was not delivered.
C22_WitnessTurnedOff ==
  /\ pc = "done"
  /\ Len(raised) = 2
  /\ raised[1].code = raised[2].code
  /\ Len(calls) = 1
  /\ calls[1].fn = MeddlingSink
  /\ ClaimOverride(raised[2]) = Bool(FALSE)

=============================================================================
